---- MODULE Spec2Model ----
(***************************************************************************)
(* Portalis npm distribution shim.                                         *)
(*                                                                         *)
(*   scripts/install.js  (src/unnamed/part_002)  postinstall downloader    *)
(*   index.js            (src/index.js)          Node launcher             *)
(*   bin/portalis.cmd    (src/unnamed/part_001)  Windows wrapper           *)
(*                                                                         *)
(* The installer is an event-driven Node program: every callback of        *)
(* downloadBinary is one action.  fs.createWriteStream opens its file      *)
(* asynchronously, so the open (O_CREAT | O_TRUNC) of each stream is an    *)
(* action of its own that is ordered only after the stream's creation.     *)
(***************************************************************************)
EXTENDS Integers, Sequences, FiniteSets, TLC

----------------------------------------------------------------------------
(* Bounds *)

MaxRedirects == 2      \* longest redirect chain explored
BodyLen      == 2      \* longest response body, in chunks
MaxRuns      == 2      \* install runs per behaviour
MaxLaunches  == 2      \* launcher invocations per behaviour
MaxArgs      == 2      \* longest launcher argument list

----------------------------------------------------------------------------
(* Environment *)

OSes     == {"darwin", "linux", "win32", "freebsd"}
Archs    == {"x64", "arm64"}
ArgVals  == {"convert", "script.py"}

RedirectStatuses == {301, 302}
FailStatuses     == {307, 404, 500}

\* exit codes a child can report; NoCode is the `null` a signal-killed child reports
NoCode     == -1
ChildCodes == {0, 1, 42}

----------------------------------------------------------------------------
(* install.js: constants and pure helpers *)

BINARY_NAME == "portalis"

PLATFORM_MAP ==
    ( <<"darwin", "x64">>   :> "macos-x86_64"  ) @@
    ( <<"darwin", "arm64">> :> "macos-aarch64" ) @@
    ( <<"linux", "x64">>    :> "linux-x86_64"  ) @@
    ( <<"linux", "arm64">>  :> "linux-aarch64" ) @@
    ( <<"win32", "x64">>    :> "windows-x86_64")

\* `${type}-${arch}`
PlatformKey(type, cpu) == <<type, cpu>>

\* !platform
Unsupported(type, cpu) == PlatformKey(type, cpu) \notin DOMAIN PLATFORM_MAP

getBinaryExtension(type) == IF type = "win32" THEN ".exe" ELSE ""

\* path.join(binDir, BINARY_NAME + ext), relative to the package root
binaryPath(type) == "bin/" \o BINARY_NAME \o getBinaryExtension(type)

\* process.platform !== 'win32'
NeedsChmodNever(type) == FALSE
NeedsChmod(type) == type # "win32"

DefaultFileMode == 438     \* 0o666, the mode fs.createWriteStream creates with
ExecMode        == 493     \* 0o755

OwnerExec(mode) == (mode \div 64) % 2 = 1

----------------------------------------------------------------------------
(* File system *)

Paths == {"bin/portalis", "bin/portalis.exe"}

NoFile == [exists |-> FALSE, content |-> <<>>, mode |-> 0]

Max(a, b) == IF a >= b THEN a ELSE b

\* open(path, O_WRONLY | O_CREAT | O_TRUNC, 0o666)
OpenTrunc(f) ==
    [exists |-> TRUE, content |-> <<>>,
     mode |-> IF f.exists THEN f.mode ELSE DefaultFileMode]

\* what a gap in a file reads as
Hole == <<0, 0>>

\* write of one chunk b through a descriptor whose offset is pos; a gap left
\* by a truncation through another descriptor reads as zeros
WriteAt(f, pos, b) ==
    LET old == f.content
        n   == Max(Len(old), pos + 1)
    IN  [f EXCEPT !.content =
            [i \in 1..n |-> IF i = pos + 1 THEN b
                            ELSE IF i <= Len(old) THEN old[i] ELSE Hole]]

\* fs.unlink(dest, () => {})
Unlink(f) == NoFile

\* fs.chmodSync(binaryPath, 0o755)
Chmod(f, m) == [f EXCEPT !.mode = m]

\* the chunks of a response body of n chunks; chunk i of it is <<n, i>>, so
\* that a prefix of one body is not another body
BodyOf(n) == [i \in 1..n |-> <<n, i>>]

----------------------------------------------------------------------------
(* index.js and portalis.cmd: pure helpers *)

\* path.join(__dirname, 'bin', process.platform === 'win32' ? 'portalis.exe' : 'portalis')
binPath(type) == "bin/" \o (IF type = "win32" THEN "portalis.exe" ELSE "portalis")

\* set exe=%bindir%portalis.exe
cmdExe == "bin/" \o "portalis.exe"

\* Array.prototype.slice(n): the elements after the first n
Slice(a, n) == [i \in 1..Max(Len(a) - n, 0) |-> a[i + n]]

\* process.argv.slice(2)
SpawnArgsKeepScript(argv) == Slice(argv, 1)
SpawnArgs(argv) == Slice(argv, 2)

\* process.exit(code): a null code leaves process.exitCode at its default, 0
ProcessExit(code) == IF code = NoCode THEN 0 ELSE code

\* the content is a whole published binary
IsProgram(content) == \E n \in 1..BodyLen : content = BodyOf(n)

\* whether the operating system starts the file when it is spawned: execvp
\* asks for the execute bit only (a file the kernel does not recognise is
\* handed to the shell); CreateProcess asks for a well-formed image
Runnable(type, f) ==
    /\ f.exists
    /\ IF type = "win32" THEN IsProgram(f.content) ELSE OwnerExec(f.mode)

\* argument lists of at most n elements
ArgLists(n) == UNION { [1..k -> ArgVals] : k \in 0..n }

----------------------------------------------------------------------------
(* State *)

VARIABLES
    os, arch,        \* process.platform, process.arch of the host
    fs,              \* the files of the package's bin directory
    ipc,             \* installer: "idle", "requesting", "streaming", "exited"
    streams,         \* write streams of the installer process, in creation
                     \* order: "pending" until the open completes, then "open"
    body,            \* body of the 200 response being piped
    flushed,         \* chunks the piped stream has written (its file offset)
    out,             \* what this installer run printed
    printedKeys,     \* platform keys listed by this installer run
    exitCode,        \* installer exit status, NoCode while it has none
    failure,         \* how this run's download failed: "none", "http", "request", "body"
    chmodApplied,    \* this run called chmodSync
    requested,       \* this run called https.get
    runs,            \* install runs started
    lpc,             \* launcher: "idle", "waiting", "exited"
    lkind,           \* "node" (index.js) or "cmd" (portalis.cmd)
    args,            \* the arguments the launcher received
    spawns,          \* spawn attempts of this invocation: [file, args]
    executed,        \* the spawned file was started as a program
    childCode,       \* the child's exit code, NoCode when killed by a signal
    lexit,           \* launcher exit status, NoCode while it has none
    lmsg,            \* what the launcher's error output names
    launches         \* launcher invocations started

ivars == <<ipc, streams, body, flushed, out, printedKeys, exitCode, failure,
           chmodApplied, requested, runs>>
lvars == <<lpc, lkind, args, spawns, executed, childCode, lexit, lmsg, launches>>
vars  == <<os, arch, fs, ivars, lvars>>

dest == binaryPath(os)

NewStream == "pending"

Quiescent == ipc \in {"idle", "exited"} /\ lpc \in {"idle", "exited"}

\* a new installer process starts: the previous launcher process is gone
LauncherGone ==
    /\ lpc' = "idle"
    /\ lkind' = "node"
    /\ args' = <<>>
    /\ spawns' = <<>>
    /\ executed' = FALSE
    /\ childCode' = NoCode
    /\ lexit' = NoCode
    /\ lmsg' = {}
    /\ UNCHANGED launches

\* a launcher process starts: the installer process and its streams are gone
InstallerGone ==
    /\ streams' = <<>>
    /\ UNCHANGED <<ipc, body, flushed, out, printedKeys, exitCode, failure,
                   chmodApplied, requested, runs>>

Init ==
    /\ os \in OSes
    /\ arch \in Archs
    /\ fs = [p \in Paths |-> NoFile]
    /\ ipc = "idle"
    /\ streams = <<>>
    /\ body = <<>>
    /\ flushed = 0
    /\ out = {}
    /\ printedKeys = {}
    /\ exitCode = NoCode
    /\ failure = "none"
    /\ chmodApplied = FALSE
    /\ requested = FALSE
    /\ runs = 0
    /\ lpc = "idle"
    /\ lkind = "node"
    /\ args = <<>>
    /\ spawns = <<>>
    /\ executed = FALSE
    /\ childCode = NoCode
    /\ lexit = NoCode
    /\ lmsg = {}
    /\ launches = 0

----------------------------------------------------------------------------
(* install.js *)

\* install() up to getPlatform(): the platform has no entry in PLATFORM_MAP
getPlatformExit == 1
InstallUnsupported ==
    /\ Quiescent
    /\ runs < MaxRuns
    /\ Unsupported(os, arch)
    /\ runs' = runs + 1
    /\ out' = {"unsupported", "supported_list", "build_from_source"}
    /\ printedKeys' = DOMAIN PLATFORM_MAP
    /\ exitCode' = getPlatformExit
    /\ ipc' = "exited"
    /\ streams' = <<>>
    /\ body' = <<>>
    /\ flushed' = 0
    /\ failure' = "none"
    /\ chmodApplied' = FALSE
    /\ requested' = FALSE
    /\ LauncherGone
    /\ UNCHANGED <<os, arch, fs>>

\* install() up to the await: getPlatform() returns, downloadBinary() creates
\* the write stream and issues the first request
InstallStart ==
    /\ Quiescent
    /\ runs < MaxRuns
    /\ ~Unsupported(os, arch)
    /\ runs' = runs + 1
    /\ out' = {}
    /\ printedKeys' = {}
    /\ exitCode' = NoCode
    /\ ipc' = "requesting"
    /\ streams' = <<NewStream>>
    /\ body' = <<>>
    /\ flushed' = 0
    /\ failure' = "none"
    /\ chmodApplied' = FALSE
    /\ requested' = TRUE
    /\ LauncherGone
    /\ UNCHANGED <<os, arch, fs>>

\* the asynchronous open of stream i completes; an open still pending when
\* the process exits is not performed
OpenStream(i) ==
    /\ ipc \in {"requesting", "streaming"}
    /\ i \in 1..Len(streams)
    /\ streams[i] = "pending"
    /\ streams' = [streams EXCEPT ![i] = "open"]
    /\ fs' = [fs EXCEPT ![dest] = OpenTrunc(fs[dest])]
    /\ UNCHANGED <<os, arch, ipc, body, flushed, out, printedKeys, exitCode,
                   failure, chmodApplied, requested, runs, lvars>>

\* the catch block of install(): guidance, then process.exit(0)
catchExit == 0
Caught(kind) ==
    /\ out' = out \cup {"failed", "guidance"}
    /\ failure' = kind
    /\ exitCode' = catchExit
    /\ ipc' = "exited"

\* response callback, statusCode 301 or 302: downloadBinary(location, dest)
ResponseRedirect(status) ==
    /\ ipc = "requesting"
    /\ status \in RedirectStatuses
    /\ Len(streams) <= MaxRedirects
    /\ streams' = Append(streams, NewStream)
    /\ requested' = TRUE
    /\ UNCHANGED <<os, arch, fs, ipc, body, flushed, out, printedKeys, exitCode,
                   failure, chmodApplied, runs, lvars>>

\* response callback, statusCode neither a redirect nor 200: reject
ResponseFail(status) ==
    /\ ipc = "requesting"
    /\ status \in FailStatuses
    /\ Caught("http")
    /\ UNCHANGED <<os, arch, fs, streams, body, flushed, printedKeys,
                   chmodApplied, requested, runs, lvars>>

\* response callback, statusCode 200: response.pipe(file)
ResponseOK(n) ==
    /\ ipc = "requesting"
    /\ n \in 1..BodyLen
    /\ body' = BodyOf(n)
    /\ ipc' = "streaming"
    /\ UNCHANGED <<os, arch, fs, streams, flushed, out, printedKeys, exitCode,
                   failure, chmodApplied, requested, runs, lvars>>

\* the piped stream, once open, writes the next chunk of the body
WriteChunk ==
    /\ ipc = "streaming"
    /\ streams[Len(streams)] = "open"
    /\ flushed < Len(body)
    /\ fs' = [fs EXCEPT ![dest] = WriteAt(fs[dest], flushed, body[flushed + 1])]
    /\ flushed' = flushed + 1
    /\ UNCHANGED <<os, arch, ipc, streams, body, out, printedKeys, exitCode,
                   failure, chmodApplied, requested, runs, lvars>>

\* 'finish' of the piped stream: resolve; install() makes the file executable,
\* prints the success message and the process ends
Finish ==
    /\ ipc = "streaming"
    /\ streams[Len(streams)] = "open"
    /\ flushed = Len(body)
    /\ fs' = [fs EXCEPT ![dest] =
                IF NeedsChmod(os) THEN Chmod(fs[dest], ExecMode) ELSE fs[dest]]
    /\ chmodApplied' = NeedsChmod(os)
    /\ out' = out \cup {"success"}
    /\ exitCode' = 0
    /\ ipc' = "exited"
    /\ UNCHANGED <<os, arch, streams, body, flushed, printedKeys, failure,
                   requested, runs, lvars>>

\* 'error' of the request: fs.unlink(dest), reject
RequestError ==
    /\ ipc = "requesting"
    /\ fs' = [fs EXCEPT ![dest] = Unlink(fs[dest])]
    /\ Caught("request")
    /\ UNCHANGED <<os, arch, streams, body, flushed, printedKeys,
                   chmodApplied, requested, runs, lvars>>

\* the socket fails while the body is piped and the request emits 'error'
BodyError ==
    /\ ipc = "streaming"
    /\ fs' = [fs EXCEPT ![dest] = Unlink(fs[dest])]
    /\ Caught("body")
    /\ UNCHANGED <<os, arch, streams, body, flushed, printedKeys,
                   chmodApplied, requested, runs, lvars>>

\* the connection closes while the body is piped: the response is aborted, no
\* handler of downloadBinary runs, the promise stays pending and the process
\* ends when the event loop is empty
BodyAborted ==
    /\ ipc = "streaming"
    /\ failure' = "body"
    /\ exitCode' = 0
    /\ ipc' = "exited"
    /\ UNCHANGED <<os, arch, fs, streams, body, flushed, out, printedKeys,
                   chmodApplied, requested, runs, lvars>>

----------------------------------------------------------------------------
(* index.js *)

\* exit status of a Node process ended by an 'error' event nobody listens to
uncaughtExit == 1

\* node index.js a...: spawn(binPath, process.argv.slice(2), ...); a spawn
\* that fails emits 'error' on the child, which has no listener
LaunchNode(a) ==
    LET argv == <<"node", "index.js">> \o a
        ok   == Runnable(os, fs[binPath(os)])
    IN  /\ Quiescent
        /\ launches < MaxLaunches
        /\ a \in ArgLists(MaxArgs)
        /\ launches' = launches + 1
        /\ lkind' = "node"
        /\ args' = a
        /\ spawns' = <<[file |-> binPath(os), args |-> SpawnArgs(argv)]>>
        /\ executed' = ok
        /\ childCode' = NoCode
        /\ lpc' = IF ok THEN "waiting" ELSE "exited"
        /\ lexit' = IF ok THEN NoCode ELSE uncaughtExit
        /\ lmsg' = IF ok THEN {} ELSE {"path"}
        /\ InstallerGone
        /\ UNCHANGED <<os, arch, fs>>

\* child.on('exit', (code) => process.exit(code)); code is null (NoCode)
\* when a signal ended the child
NodeChildExit(code) ==
    /\ lpc = "waiting"
    /\ lkind = "node"
    /\ code \in ChildCodes \cup {NoCode}
    /\ childCode' = code
    /\ lexit' = ProcessExit(code)
    /\ lpc' = "exited"
    /\ UNCHANGED <<os, arch, fs, ivars, lkind, args, spawns, executed, lmsg, launches>>

----------------------------------------------------------------------------
(* portalis.cmd *)

cmdMissingExit == 1

\* portalis.cmd a...: if not exist "%exe%" ( echo ... & exit /b 1 ), else
\* "%exe%" %*; a file cmd.exe cannot start leaves a non-zero errorlevel
LaunchCmd(a) ==
    LET found == fs[cmdExe].exists
        ok    == Runnable(os, fs[cmdExe])
    IN  /\ Quiescent
        /\ os = "win32"
        /\ launches < MaxLaunches
        /\ a \in ArgLists(MaxArgs)
        /\ launches' = launches + 1
        /\ lkind' = "cmd"
        /\ args' = a
        /\ spawns' = IF found THEN <<[file |-> cmdExe, args |-> a]>> ELSE <<>>
        /\ executed' = ok
        /\ childCode' = NoCode
        /\ lpc' = IF ok THEN "waiting" ELSE "exited"
        /\ \E e \in (IF ~found THEN {cmdMissingExit}
                     ELSE IF ok THEN {NoCode} ELSE ChildCodes \ {0}) : lexit' = e
        /\ lmsg' = IF found THEN {} ELSE {"path", "reinstall"}
        /\ InstallerGone
        /\ UNCHANGED <<os, arch, fs>>

\* the batch file ends with the exit code of its last command
CmdChildExit(code) ==
    /\ lpc = "waiting"
    /\ lkind = "cmd"
    /\ code \in ChildCodes
    /\ childCode' = code
    /\ lexit' = code
    /\ lpc' = "exited"
    /\ UNCHANGED <<os, arch, fs, ivars, lkind, args, spawns, executed, lmsg, launches>>

----------------------------------------------------------------------------

Next ==
    \/ InstallUnsupported
    \/ InstallStart
    \/ \E i \in 1..(MaxRedirects + 1) : OpenStream(i)
    \/ \E status \in RedirectStatuses : ResponseRedirect(status)
    \/ \E status \in FailStatuses : ResponseFail(status)
    \/ \E n \in 1..BodyLen : ResponseOK(n)
    \/ WriteChunk
    \/ Finish
    \/ RequestError
    \/ BodyError
    \/ BodyAborted
    \/ \E a \in ArgLists(MaxArgs) : LaunchNode(a)
    \/ \E code \in ChildCodes \cup {NoCode} : NodeChildExit(code)
    \/ \E a \in ArgLists(MaxArgs) : LaunchCmd(a)
    \/ \E code \in ChildCodes : CmdChildExit(code)

Spec == Init /\ [][Next]_vars

----------------------------------------------------------------------------
(* Properties *)

\* the path the launcher of this invocation looks at
LauncherPath == IF lkind = "cmd" THEN cmdExe ELSE binPath(os)

InstallEnded    == ipc = "exited"
InstallSuccess  == ipc = "exited" /\ "success" \in out
LauncherEnded   == lpc = "exited"
LauncherFailed  == lexit \notin {0, NoCode}

\* C1: on a platform that is not a key of PLATFORM_MAP the installer lists
\* every supported key, makes no request and ends with exit status 0.
C1_UnsupportedExitsZero ==
    (InstallEnded /\ Unsupported(os, arch)) =>
        /\ printedKeys = DOMAIN PLATFORM_MAP
        /\ ~requested
        /\ exitCode = 0

\* C2: on a supported platform every install run whose download failed has
\* printed the remediation guidance and ended with exit status 0.
C2_FailureReportedExitZero ==
    (InstallEnded /\ ~Unsupported(os, arch) /\ failure # "none") =>
        /\ "guidance" \in out
        /\ exitCode = 0

\* C3: after an install run whose download ended in a non-success HTTP
\* status no file exists at the installed-binary path.
C3_NoFileAfterHttpFailure ==
    (InstallEnded /\ failure = "http") => ~fs[dest].exists

\* C4: when success is reported the installed binary's content is exactly
\* the body of the final 200 response, whatever the redirect chain was.
C4_ContentIsFinalBody ==
    InstallSuccess => fs[dest].content = body

\* C5: when the child has terminated the launcher's exit code is the
\* child's, and it is not 0 unless the child exited 0.
C5_ExitCodeEqualsChild ==
    (LauncherEnded /\ executed) =>
        /\ childCode # NoCode => lexit = childCode
        /\ childCode # 0 => lexit # 0

\* C6: with no file at the expected binary path the launcher spawns nothing,
\* names the path and the reinstall remediation, and exits non-zero.
C6_MissingBinaryFailsFast ==
    (LauncherEnded /\ ~fs[LauncherPath].exists) =>
        /\ spawns = <<>>
        /\ {"path", "reinstall"} \subseteq lmsg
        /\ LauncherFailed

\* C7: the launcher executes the binary only if the latest install run
\* succeeded; otherwise it executes nothing and fails with a non-zero exit
\* and the missing-binary diagnostic.
C7_LaunchOnlyAfterSuccessfulInstall ==
    lpc # "idle" =>
        /\ executed => InstallSuccess
        /\ ~InstallSuccess =>
              /\ ~executed
              /\ LauncherEnded
              /\ LauncherFailed
              /\ {"path", "reinstall"} \subseteq lmsg

\* C8: after a transport error, before or after the response, no file is
\* left at the binary path and the failure has been reported.
C8_TransportErrorCleansUp ==
    (InstallEnded /\ failure \in {"request", "body"}) =>
        /\ ~fs[dest].exists
        /\ "failed" \in out

\* C9: when the binary exists the launcher spawns it exactly once, with
\* exactly the arguments the launcher received, in order.
C9_ArgsForwarded ==
    (lpc # "idle" /\ fs[LauncherPath].exists) =>
        /\ Len(spawns) = 1
        /\ spawns[1].file = LauncherPath
        /\ spawns[1].args = args

C9_Witness ==
    /\ LauncherEnded
    /\ executed
    /\ args = <<"convert", "script.py">>
    /\ Len(spawns) = 1
    /\ spawns[1].args = <<"convert", "script.py">>

\* C10: success is printed only once the whole body has been written and,
\* off Windows, the file exists with owner-execute set; on Windows the mode is
\* never changed; a run whose download failed never changes the mode.
C10_SuccessImpliesExecutable ==
    /\ "success" \in out =>
          /\ failure = "none"
          /\ body # <<>>
          /\ flushed = Len(body)
          /\ fs[dest].exists
    /\ ("success" \in out /\ os # "win32") =>
          /\ chmodApplied
          /\ fs[dest].mode = ExecMode
          /\ OwnerExec(fs[dest].mode)
    /\ os = "win32" =>
          /\ ~chmodApplied
          /\ fs[dest].exists => fs[dest].mode = DefaultFileMode
    /\ failure # "none" => ~chmodApplied

C10_Witness ==
    /\ InstallSuccess
    /\ os = "linux"
    /\ runs = 2
    /\ chmodApplied
    /\ Len(streams) > 1
    /\ OwnerExec(fs[dest].mode)

====
